---- MODULE Spec2Model ----
(***************************************************************************)
(* Beam-search decoding of src/beam_search.py (run_beam_search and the     *)
(* helpers it calls), as a state machine.                                  *)
(*                                                                         *)
(* Numbers.  Log-probabilities are integers in tenths (-1 is -0.1), so a   *)
(* hypothesis's avg_log_prob is the rational log_prob / len(tokens) and    *)
(* two keys are compared by cross-multiplication.  lambda_val is counted   *)
(* in units of 1/LamDen; importances, similarities and mmr values are      *)
(* multiples of LamDen, so that lambda*importance is again an integer.     *)
(***************************************************************************)
EXTENDS Integers, Sequences, FiniteSets, TLC

(* ---- bounds of the model ---- *)
MaxBeam == 2
MaxSteps == 2
NumSents == 1

(* ---- vocabulary: the ids vocab.word2id gives the special tokens ---- *)
UNKNOWN_TOKEN == 0
START_DECODING == 2
STOP_DECODING == 3
PERIOD == 4
TokA == PERIOD + 1
TokB == TokA + 1
VocabSize == TokB + 1
\* the first temporary in-article OOV id: the first id past the vocabulary
OovId == VocabSize

\* lambda_val = l stands for l / LamDen
LamDen == 2

\* Python's None where a vector is expected: the vector with no entries
None == <<>>

VARIABLES
    beam_size,       \* FLAGS.beam_size
    max_dec_steps,   \* FLAGS.max_dec_steps
    min_dec_steps,   \* FLAGS.min_dec_steps
    pg_mmr,          \* FLAGS.pg_mmr
    lambda_val,      \* FLAGS.lambda_val
    enc_states,      \* None until model.run_encoder has returned
    importances,     \* per-sentence importance vector, None without pg_mmr
    hyps,            \* live hypotheses
    results,         \* finished hypotheses
    steps,           \* loop counter
    latest_tokens,   \* the token ids of the last call of model.decode_onestep
    all_hyps,        \* the children fanned out in the current iteration
    walk_end,        \* rank of the last child the pruning walk looked at
    best_hyp,        \* the value run_beam_search returns
    pc,              \* "start", "loop", "walk", "done", "error"; "call" and
                     \* "returned" around one call of a helper function
    array,           \* mute_all_except_top_k: the score vector
    mute_k,          \* FLAGS.mute_k, the k of mute_all_except_top_k
    retain_mmr_values, \* FLAGS.retain_mmr_values
    muted,           \* the vector mute_all_except_top_k returns
    mmr_for_sentences, \* convert_to_word_level: the per-sentence scores
    enc_tokens,      \* batch.word_ids_sents[0]: the token ids of each sentence
    enc_batch_len,   \* len(batch.enc_batch[0])
    word_mmr         \* the vector convert_to_word_level returns

vars == <<beam_size, max_dec_steps, min_dec_steps, pg_mmr, lambda_val,
          enc_states, importances, hyps, results, steps, latest_tokens,
          all_hyps, walk_end, best_hyp, pc, array, mute_k, retain_mmr_values,
          muted, mmr_for_sentences, enc_tokens, enc_batch_len, word_mmr>>

\* the arguments and results of the helper functions
helpers == <<array, mute_k, retain_mmr_values, muted, mmr_for_sentences,
             enc_tokens, enc_batch_len, word_mmr>>

flags == <<beam_size, max_dec_steps, min_dec_steps, pg_mmr, lambda_val>>

Max(a, b) == IF a >= b THEN a ELSE b

RECURSIVE SumSeq(_)
SumSeq(s) == IF s = <<>> THEN 0 ELSE Head(s) + SumSeq(Tail(s))

(* ---- class Hypothesis ---- *)
\* self.similarity = 0.: the scalar stands for 0 at every source sentence
DefaultSimilarity == [i \in 1..NumSents |-> 0]

Hypothesis(tokens, log_probs, attn_dists, p_gens, mmr) ==
    [tokens |-> tokens, log_probs |-> log_probs, attn_dists |-> attn_dists,
     p_gens |-> p_gens, similarity |-> DefaultSimilarity, mmr |-> mmr]

\* stands for "no hypothesis was returned"
NoHypothesis == Hypothesis(<<>>, <<>>, <<>>, <<>>, None)

\* as extend, with the attention distribution left out
extend_no_attn(h, token, log_prob, attn_dist, p_gen, mmr) ==
    Hypothesis(h.tokens \o <<token>>, h.log_probs \o <<log_prob>>,
               h.attn_dists, h.p_gens \o <<p_gen>>, mmr)

\* as extend, with the new token written over the parent's last token
extend_in_place(h, token, log_prob, attn_dist, p_gen, mmr) ==
    Hypothesis(SubSeq(h.tokens, 1, Len(h.tokens) - 1) \o <<token>>,
               h.log_probs \o <<log_prob>>,
               h.attn_dists \o <<attn_dist>>, h.p_gens \o <<p_gen>>, mmr)

\* as extend, with the token and its log-probability appended twice
extend_twice(h, token, log_prob, attn_dist, p_gen, mmr) ==
    Hypothesis(h.tokens \o <<token, token>>, h.log_probs \o <<log_prob, log_prob>>,
               h.attn_dists \o <<attn_dist>>, h.p_gens \o <<p_gen>>, mmr)

extend(h, token, log_prob, attn_dist, p_gen, mmr) ==
    Hypothesis(h.tokens \o <<token>>, h.log_probs \o <<log_prob>>,
               h.attn_dists \o <<attn_dist>>, h.p_gens \o <<p_gen>>, mmr)

latest_token(h) == h.tokens[Len(h.tokens)]

log_prob(h) == SumSeq(h.log_probs)

\* as avg_log_prob_gt, with the comparison turned round
avg_log_prob_lt(h1, h2) ==
    log_prob(h1) * Len(h2.tokens) < log_prob(h2) * Len(h1.tokens)

\* avg_log_prob(h1) > avg_log_prob(h2), both lengths being positive
avg_log_prob_gt(h1, h2) ==
    log_prob(h1) * Len(h2.tokens) > log_prob(h2) * Len(h1.tokens)

(* ---- sort_hyps: sorted(..., reverse=True), a stable descending sort ---- *)
\* as GoesAfter, but hs[n] goes before the elements whose key equals its own
GoesAfterGreater(hs, n, i) == avg_log_prob_gt(hs[i], hs[n])

\* hs[n], which follows hs[i] in the input, goes after it in the output:
\* the key of hs[i] is greater than or equal to its own
GoesAfter(hs, n, i) == ~avg_log_prob_gt(hs[n], hs[i])

\* order holds the indices of hs[1..n-1] in sorted order; n is inserted
Insert(hs, order, n) ==
    LET k == Cardinality({p \in 1..Len(order) : GoesAfter(hs, n, order[p])})
    IN SubSeq(order, 1, k) \o <<n>> \o SubSeq(order, k + 1, Len(order))

\* as SortOrder, without sorting: the indices in the order of the input
SortOrderUnsorted(hs, n) == [i \in 1..n |-> i]

\* the indices of hs[1..n] in sorted order
RECURSIVE SortOrder(_, _)
SortOrder(hs, n) ==
    IF n = 0 THEN <<>>
    ELSE CHOOSE order \in {Insert(hs, prev, n) : prev \in {SortOrder(hs, n - 1)}} : TRUE

sort_hyps(hs) ==
    CHOOSE sorted \in {[i \in 1..Len(hs) |-> hs[order[i]]] :
                          order \in {SortOrder(hs, Len(hs))}} : TRUE

(* ---- calc_mmr_from_sim_and_imp ---- *)
\* as calc_mmr_from_sim_and_imp, with the two weights exchanged
calc_mmr_swapped(similarity, imps) ==
    [i \in 1..Len(imps) |->
        Max(((LamDen - lambda_val) * imps[i] - lambda_val * similarity[i]) \div LamDen, 0)]

calc_mmr_from_sim_and_imp(similarity, imps) ==
    [i \in 1..Len(imps) |->
        Max((lambda_val * imps[i] - (LamDen - lambda_val) * similarity[i]) \div LamDen, 0)]

(* ---- the external one-step decoder ---- *)
\* A candidate is a token id with its log-probability.  The decoder answers
\* each parent with a row of 2*beam_size candidates: a window of a list of
\* candidates read cyclically from any offset, or the last candidate of the
\* list, the stop token, in every place.
Cand(t, lp) == [token |-> t, log_prob |-> lp]

Candidates ==
    << Cand(TokA, -1), Cand(STOP_DECODING, -2), Cand(OovId, -3),
       Cand(PERIOD, -2), Cand(STOP_DECODING, -1) >>

\* the shorter list used in diversity mode, where sentences must end often
SentenceCandidates ==
    << Cand(PERIOD, -1), Cand(STOP_DECODING, -1), Cand(TokA, -2) >>

Row(cands, offset, stride, n) ==
    [j \in 1..n |-> cands[((offset - 1 + stride * (j - 1)) % Len(cands)) + 1]]

Windows(cands, n) == {Row(cands, o, 1, n) : o \in 1..Len(cands)}

DecoderRows(n) ==
    Windows(Candidates, n) \cup {Row(Candidates, Len(Candidates), 0, n)}

\* Per-sentence score vectors: the same score at every sentence, or scores
\* that alternate between 0 and the given score from sentence to sentence.
ScoreVectors(values) ==
    {[i \in 1..NumSents |-> v] : v \in values}
        \cup {[i \in 1..NumSents |-> (i % 2) * v] : v \in values}

\* the similarity scorer (util.get_similarity) returns one score per sentence
SimValues == {-LamDen, 0, LamDen}
Similarities == ScoreVectors(SimValues)

\* the importance estimator returns one non-negative score per sentence
ImpValues == {0, LamDen}
ImportanceVectors == ScoreVectors(ImpValues)

(* ---- run_beam_search ---- *)
\* as LoopCond, with one more iteration allowed
LoopCondLate ==
    steps <= max_dec_steps /\ Len(results) < beam_size

\* line 305: the condition of the while loop
LoopCond ==
    steps < max_dec_steps /\ Len(results) < beam_size

\* as FeedToken, without the replacement
FeedTokenRaw(t) == t

\* line 308: temporary in-article OOV ids become [UNK] for the decoder
FeedToken(t) ==
    IF t \in 0..(VocabSize - 1) THEN t ELSE UNKNOWN_TOKEN

\* lines 335-336
num_orig_hyps == IF steps = 0 THEN 1 ELSE Len(hyps)

\* as LongEnough, with a strict comparison
LongEnoughStrict(s) == s > min_dec_steps

\* line 357: a finished child is kept only when the summary is long enough
LongEnough(s) == s >= min_dec_steps

\* as WalkFull, with the two sizes counted together
WalkFullSum(nlive, nres) == nlive + nres >= beam_size

\* as WalkFull, stopping one element late
WalkFullLate(nlive, nres) == nlive > beam_size \/ nres > beam_size

\* line 361: the pruning walk stops
WalkFull(nlive, nres) == nlive = beam_size \/ nres = beam_size

\* lines 354-363: the walk over the children in sorted order.  order holds
\* the children's indices in all_hyps, k is the rank looked at, live the
\* indices kept for the next step and res the finished hypotheses.
RECURSIVE Walk(_, _, _, _, _)
Walk(all, order, k, live, res) ==
    IF k > Len(order)
    THEN [live |-> live, results |-> res, last |-> Len(order)]
    ELSE LET h == all[order[k]]
             stop == latest_token(h) = STOP_DECODING
             res2 == IF stop /\ LongEnough(steps) THEN Append(res, h) ELSE res
             live2 == IF stop THEN live ELSE Append(live, order[k])
         IN IF WalkFull(Len(live2), Len(res2))
            THEN [live |-> live2, results |-> res2, last |-> k]
            ELSE Walk(all, order, k + 1, live2, res2)

\* as ResultSet, with the live beam always among the results
ResultSetBoth(res, live) == IF Len(res) = 0 THEN live ELSE res \o live

\* lines 374-375: with no finished hypothesis the live beam is the result set
ResultSet(res, live) == IF Len(res) = 0 THEN live ELSE res

\* lines 280-304: the encoder runs, the importances are computed and
\* beam_size copies of the initial hypothesis are made
Start ==
    /\ pc = "start"
    /\ enc_states' = "enc_states"
    /\ IF pg_mmr
       THEN importances' \in ImportanceVectors
       ELSE importances' = None
    /\ hyps' = [i \in 1..beam_size |->
                  Hypothesis(<<START_DECODING>>, <<0>>, <<>>, <<>>, importances')]
    /\ results' = <<>>
    /\ steps' = 0
    /\ pc' = "loop"
    /\ UNCHANGED <<flags, latest_tokens, all_hyps, walk_end, best_hyp, helpers>>

\* lines 305-350: the loop is entered, the decoder is called with the latest
\* tokens and every original hypothesis is extended by each of its
\* 2*beam_size candidates.  Only the rows of the first num_orig_hyps
\* hypotheses are read, so only those are chosen.
Decode(rowset) ==
    /\ pc = "loop"
    /\ LoopCond
    /\ latest_tokens' = [i \in 1..Len(hyps) |-> FeedToken(latest_token(hyps[i]))]
    /\ \E topk \in [1..num_orig_hyps -> rowset] :
          all_hyps' =
            [k \in 1..(num_orig_hyps * 2 * beam_size) |->
                LET i == ((k - 1) \div (2 * beam_size)) + 1
                    j == ((k - 1) % (2 * beam_size)) + 1
                IN extend(hyps[i], topk[i][j].token, topk[i][j].log_prob,
                          steps, steps, hyps[i].mmr)]
    /\ pc' = "walk"
    /\ UNCHANGED <<flags, enc_states, importances, hyps, results, steps,
                   walk_end, best_hyp, helpers>>

DecodeStep == Decode(DecoderRows(2 * beam_size))

\* as update_similarity_and_mmr, without the assignment of hyp.mmr
update_similarity_only(hyp, sim) == [hyp EXCEPT !.similarity = sim]

\* lines 262-265: hyp.similarity and hyp.mmr are assigned in place
update_similarity_and_mmr(hyp, sim) ==
    [hyp EXCEPT !.similarity = sim,
                !.mmr = calc_mmr_from_sim_and_imp(sim, importances)]

\* lines 352-370: the pruning walk, the MMR update of the live hypotheses
\* that end a sentence, and the step counter.  The live hypotheses are the
\* very objects all_hyps holds, so the update shows there as well.
Prune ==
    /\ pc = "walk"
    /\ \E order \in {SortOrder(all_hyps, Len(all_hyps))} :
       \E w \in {Walk(all_hyps, order, 1, <<>>, results)} :
       \E ended \in {{i \in 1..Len(w.live) :
                        pg_mmr /\ latest_token(all_hyps[w.live[i]]) = PERIOD}} :
       \E sims \in [ended -> Similarities] :
            /\ all_hyps' =
                 [k \in 1..Len(all_hyps) |->
                    IF \E i \in ended : w.live[i] = k
                    THEN update_similarity_and_mmr(all_hyps[k],
                            sims[CHOOSE i \in ended : w.live[i] = k])
                    ELSE all_hyps[k]]
            /\ hyps' = [i \in 1..Len(w.live) |-> all_hyps'[w.live[i]]]
            /\ results' = w.results
            /\ walk_end' = w.last
    /\ steps' = steps + 1
    /\ pc' = "loop"
    /\ UNCHANGED <<flags, enc_states, importances, latest_tokens, best_hyp,
                   helpers>>

\* lines 372-387: the result set is sorted and its first element returned;
\* hyps_sorted[0] raises IndexError on an empty result set
Finish ==
    /\ pc = "loop"
    /\ ~LoopCond
    /\ results' = ResultSet(results, hyps)
    /\ IF Len(results') = 0
       THEN best_hyp' = NoHypothesis /\ pc' = "error"
       ELSE best_hyp' = sort_hyps(results')[1] /\ pc' = "done"
    /\ UNCHANGED <<flags, enc_states, importances, hyps, steps, latest_tokens,
                   all_hyps, walk_end, helpers>>

\* no helper function has been called
NoCall ==
    /\ array = <<>>
    /\ mute_k = -1
    /\ retain_mmr_values = FALSE
    /\ muted = <<>>
    /\ mmr_for_sentences = <<>>
    /\ enc_tokens = <<>>
    /\ enc_batch_len = 0
    /\ word_mmr = <<>>

InitWith(beams, maxs, mins, mmrs, lams) ==
    /\ NoCall
    /\ beam_size \in beams
    /\ max_dec_steps \in maxs
    /\ min_dec_steps \in mins
    /\ pg_mmr \in mmrs
    /\ lambda_val \in lams
    /\ enc_states = "None"
    /\ importances = None
    /\ hyps = <<>>
    /\ results = <<>>
    /\ steps = 0
    /\ latest_tokens = <<>>
    /\ all_hyps = <<>>
    /\ walk_end = 0
    /\ best_hyp = NoHypothesis
    /\ pc = "start"

\* every setting of the flags the loop reads, diversity mode off
Init == InitWith(0..MaxBeam, 1..MaxSteps, 0..MaxSteps, {FALSE}, {1})

Next == Start \/ DecodeStep \/ Prune \/ Finish

Spec == Init /\ [][Next]_vars

\* diversity mode on, with every lambda_val in [0, 1] that is a multiple of
\* 1/LamDen and the two nearest values outside; min_dec_steps is 0
InitMMR == InitWith(1..MaxBeam, 1..MaxSteps, {0}, {TRUE}, -1..(LamDen + 1))

DecodeSentences == Decode(Windows(SentenceCandidates, 2 * beam_size))

NextMMR == Start \/ DecodeSentences \/ Prune \/ Finish

SpecMMR == InitMMR /\ [][NextMMR]_vars

\* The loop is sequential code: a step that can be taken is taken.  The
\* decoder answers with a window of the shorter list or with the stop token
\* in every place.
DecodeShort ==
    Decode(Windows(SentenceCandidates, 2 * beam_size)
            \cup {Row(Candidates, Len(Candidates), 0, 2 * beam_size)})

NextShort == Start \/ DecodeShort \/ Prune \/ Finish

FairSpec == Init /\ [][NextShort]_vars /\ WF_vars(NextShort)

\* The end-to-end scenario: beam_size 2, max_dec_steps 3, min_dec_steps 1
\* and a decoder whose every candidate is token a with log-probability -0.1
\* or token b with log-probability -0.5, both being among the candidates.
ScenarioRows ==
    {row \in [1..4 -> {Cand(TokA, -1), Cand(TokB, -5)}] :
        \E j, k \in 1..4 : row[j].token = TokA /\ row[k].token = TokB}

DecodeScenario == Decode(ScenarioRows)

InitScenario == InitWith({2}, {3}, {1}, {FALSE}, {1})

NextScenario == Start \/ DecodeScenario \/ Prune \/ Finish

SpecScenario == InitScenario /\ [][NextScenario]_vars

\* A decoder whose candidates for one parent are pairwise distinct token
\* ids, as the top 2*beam_size entries of one distribution are: a window of
\* a list of different tokens, which is longer than any row.  The window
\* starts with the stop token, holds it further on or leaves it out.
DistinctCandidates ==
    << Cand(STOP_DECODING, -1), Cand(TokA, -1), Cand(TokB, -2),
       Cand(PERIOD, -2), Cand(OovId, -3), Cand(UNKNOWN_TOKEN, -3),
       Cand(OovId + 1, -4) >>

DistinctRows(n) ==
    {Row(DistinctCandidates, o, 1, n) : o \in {1, 2, Len(DistinctCandidates)}}

DecodeDistinct == Decode(DistinctRows(2 * beam_size))

NextDistinct == Start \/ DecodeDistinct \/ Prune \/ Finish

SpecDistinct == Init /\ [][NextDistinct]_vars

(* ---- the helper functions of lines 315-319, each called on its own ---- *)
\* bounds of the vectors the helper functions are called with
MaxLen == 3
MaxScore == 2

\* the variables of run_beam_search, which a helper function does not touch
decode == <<flags, enc_states, importances, hyps, results, steps,
            latest_tokens, all_hyps, walk_end, best_hyp>>

\* run_beam_search is not running
NotDecoding ==
    /\ beam_size = 1
    /\ max_dec_steps = 1
    /\ min_dec_steps = 0
    /\ pg_mmr = TRUE
    /\ lambda_val = LamDen
    /\ enc_states = "None"
    /\ importances = None
    /\ hyps = <<>>
    /\ results = <<>>
    /\ steps = 0
    /\ latest_tokens = <<>>
    /\ all_hyps = <<>>
    /\ walk_end = 0
    /\ best_hyp = NoHypothesis

\* the non-negative score vectors of up to MaxLen entries
ScoreArrays == UNION {[1..n -> 0..MaxScore] : n \in 0..MaxLen}

(* ---- mute_all_except_top_k ---- *)
\* line 186: np.sum(array > 0)
num_reservoirs_still_full(a) == Cardinality({i \in 1..Len(a) : a[i] > 0})

\* line 188: np.nonzero(array)
nonzero(a) == {i \in 1..Len(a) : a[i] # 0}

\* array.argsort(): an order of the indices that makes the values ascend.
\* The default sort is not stable, so equal values come in any order.
argsort(a) ==
    {p \in [1..Len(a) -> 1..Len(a)] :
        /\ \A i, j \in 1..Len(a) : i # j => p[i] # p[j]
        /\ \A i \in 1..(Len(a) - 1) : a[p[i]] <= a[p[i + 1]]}

\* as TopK, without the reversal: the first k indices of the ascending order
TopKAscending(p, n) == {p[j] : j \in 1..(IF n < Len(p) THEN n ELSE Len(p))}

\* line 190: [::-1][:k], the first k indices of the reversed order
TopK(p, n) == {p[Len(p) - j + 1] : j \in 1..(IF n < Len(p) THEN n ELSE Len(p))}

\* lines 187-190: the choices of selected_indices
selected_indices(a, n) ==
    IF num_reservoirs_still_full(a) < n
    THEN {nonzero(a)}
    ELSE {TopK(p, n) : p \in argsort(a)}

\* lines 191-197: zeros, with the selected entries retained or set to 1.
mute_result(a, selected) ==
    [i \in 1..Len(a) |->
        IF i \in selected
        THEN (IF retain_mmr_values THEN a[i] ELSE 1)
        ELSE 0]

mute_all_except_top_k ==
    /\ pc = "call"
    /\ mute_k # -1
    /\ \E selected \in selected_indices(array, mute_k) :
          muted' = mute_result(array, selected)
    /\ pc' = "returned"
    /\ UNCHANGED <<decode, array, mute_k, retain_mmr_values,
                   mmr_for_sentences, enc_tokens, enc_batch_len, word_mmr>>

\* every non-negative vector of up to MaxLen scores, every k from 1 to one
\* more than the longest vector, and both settings of retain_mmr_values
InitMute ==
    /\ NotDecoding
    /\ pc = "call"
    /\ array \in ScoreArrays
    /\ mute_k \in 1..(MaxLen + 1)
    /\ retain_mmr_values \in BOOLEAN
    /\ muted = <<>>
    /\ mmr_for_sentences = <<>>
    /\ enc_tokens = <<>>
    /\ enc_batch_len = 0
    /\ word_mmr = <<>>

NextMute == mute_all_except_top_k

SpecMute == InitMute /\ [][NextMute]_vars

(* ---- convert_to_word_level ---- *)
\* the longest source sentence, in tokens
MaxWords == 2

\* A word-level weight is the fraction <<numerator, denominator>>: the
\* default 1/num_tokens is <<1, num_tokens>>, a sentence's score s is <<s, 1>>.
Weight(s) == <<s, 1>>

\* line 121: np.ones([n]) / n
UniformWeights(n) == [p \in 1..n |-> <<1, n>>]

\* line 126: mmr[word_idx:word_idx + n] = np.full([n], score); the slice
\* counts from 0, so it is the positions word_idx + 1 .. word_idx + n
AssignSlice(mmr, word_idx, n, score) ==
    [p \in 1..Len(mmr) |->
        IF word_idx < p /\ p <= word_idx + n THEN Weight(score) ELSE mmr[p]]

\* as NextWordIdx, with the index left where it was
NextWordIdxStuck(word_idx, n) == word_idx

\* line 127: word_idx += len(mmr_for_words)
NextWordIdx(word_idx, n) == word_idx + n

\* lines 124-127: the loop over the sentences, from sentence sent_idx on
RECURSIVE FillWords(_, _, _, _, _)
FillWords(mmr, scores, toks, sent_idx, word_idx) ==
    IF sent_idx > Len(toks)
    THEN mmr
    ELSE FillWords(AssignSlice(mmr, word_idx, Len(toks[sent_idx]), scores[sent_idx]),
                   scores, toks, sent_idx + 1,
                   NextWordIdx(word_idx, Len(toks[sent_idx])))

convert_to_word_level ==
    /\ pc = "call"
    /\ mute_k = -1
    /\ word_mmr' = FillWords(UniformWeights(enc_batch_len), mmr_for_sentences,
                             enc_tokens, 1, 0)
    /\ pc' = "returned"
    /\ UNCHANGED <<decode, array, mute_k, retain_mmr_values, muted,
                   mmr_for_sentences, enc_tokens, enc_batch_len>>

\* the source's sentences: up to MaxLen sentences of 1 to MaxWords tokens
Segmentations ==
    UNION {[1..n -> {[w \in 1..m |-> TokA] : m \in 1..MaxWords}] : n \in 1..MaxLen}

\* the number of tokens of the sentences before sentence i
RECURSIVE TokensBefore(_, _)
TokensBefore(toks, i) ==
    IF i <= 1 THEN 0 ELSE TokensBefore(toks, i - 1) + Len(toks[i - 1])

\* Every segmentation of the source and every vector of one non-negative
\* score per sentence.  The encoder input batch.enc_batch[0] holds the
\* tokens of the source's sentences, so its length is their total count.
InitWords ==
    /\ NotDecoding
    /\ pc = "call"
    /\ array = <<>>
    /\ mute_k = -1
    /\ retain_mmr_values = FALSE
    /\ muted = <<>>
    /\ enc_tokens \in Segmentations
    /\ mmr_for_sentences \in [1..Len(enc_tokens) -> 0..MaxScore]
    /\ enc_batch_len = TokensBefore(enc_tokens, Len(enc_tokens) + 1)
    /\ word_mmr = <<>>

NextWords == convert_to_word_level

SpecWords == InitWords /\ [][NextWords]_vars

(* ---- properties ---- *)
InRange(t) == t \in 0..(VocabSize - 1)

Exited == pc \in {"done", "error"}

IsStop(h) == latest_token(h) = STOP_DECODING

IsLive(h) == latest_token(h) # STOP_DECODING

TokensOf(hs) == [i \in 1..Len(hs) |-> hs[i].tokens]

\* C1: with beam_size >= 1 and max_dec_steps >= 1, whatever the decoder
\* returns, the collection handed to the final selection is non-empty once
\* the loop has exited, so a best hypothesis is returned and the IndexError
\* of hyps_sorted[0] is unreachable.
C1_ResultNeverEmpty ==
    (beam_size >= 1 /\ max_dec_steps >= 1 /\ Exited)
        => (Len(results) > 0 /\ pc = "done")

\* C2: the loop terminates; the step counter never passes max_dec_steps and
\* grows by exactly one per iteration; the loop is left exactly when
\* steps = max_dec_steps or len(results) = beam_size.
C2_LoopTerminates ==
    /\ [](steps <= max_dec_steps)
    /\ [][pc = "walk" => steps' = steps + 1]_vars
    /\ [][pc = "loop" =>
            /\ steps' = steps
            /\ Exited' <=> (steps = max_dec_steps \/ Len(results) = beam_size)]_vars
    /\ <>Exited

\* the loop was left before max_dec_steps because beam_size hypotheses finished
C2_Witness ==
    /\ pc = "done"
    /\ beam_size = 2
    /\ 1 <= steps /\ steps < max_dec_steps
    /\ Len(results) = beam_size

\* C3: the live beam never holds more than beam_size hypotheses, at the
\* start of a step and after a pruning walk, and neither does the
\* collection of finished hypotheses.
C3_BeamsBounded ==
    /\ Len(hyps) <= beam_size
    /\ Len(results) <= beam_size

\* a walk that filled the live beam and left lower-ranked children unvisited
C3_Witness ==
    /\ pc = "loop"
    /\ steps >= 1
    /\ beam_size = 2
    /\ Len(hyps) = beam_size
    /\ walk_end < Len(all_hyps)

\* C4: when the loop is left the result set is the finished hypotheses if
\* there is one, and is the live beam exactly when there is none; the
\* hypothesis returned ends with the stop token exactly when a hypothesis
\* had finished.
C4_ResultSetChoice ==
    [][(pc = "loop" /\ Exited') =>
        /\ results' = (IF Len(results) >= 1 THEN results ELSE hyps)
        /\ (results' = hyps) <=> (Len(results) = 0)
        /\ pc' = "done" =>
              /\ \E i \in 1..Len(results') : best_hyp' = results'[i]
              /\ IsStop(best_hyp') <=> (Len(results) >= 1)]_vars

\* a finished hypothesis was returned although a live one has a higher key
C4_Witness ==
    /\ pc = "done"
    /\ IsStop(best_hyp)
    /\ \E i \in 1..Len(hyps) : avg_log_prob_gt(hyps[i], best_hyp)

\* C5: in the walk of step s a child that ends with the stop token is put
\* into results exactly when s >= min_dec_steps and is never made live; so
\* every finished hypothesis ends with the stop token and was completed at a
\* step >= min_dec_steps (it has s + 2 tokens), and no live hypothesis ends
\* with the stop token.
C5_StopChildren ==
    /\ [](~Exited =>
            \A i \in 1..Len(results) :
                /\ IsStop(results[i])
                /\ Len(results[i].tokens) - 2 >= min_dec_steps)
    /\ [](\A i \in 1..Len(hyps) : IsLive(hyps[i]))
    /\ [][pc = "walk" =>
            \A visited \in {SubSeq(sort_hyps(all_hyps), 1, walk_end')} :
                /\ results' = results \o
                     (IF steps >= min_dec_steps
                      THEN SelectSeq(visited, IsStop) ELSE <<>>)
                /\ TokensOf(hyps') = TokensOf(SelectSeq(visited, IsLive))]_vars

\* the walk of a step >= min_dec_steps that met a child ending with STOP
C5_Witness ==
    /\ pc = "loop"
    /\ steps >= 2
    /\ min_dec_steps = 1
    /\ \E k \in 1..walk_end : IsStop(sort_hyps(all_hyps)[k])
    /\ Len(results) >= 1
    /\ Len(hyps) >= 1

\* C6: sort_hyps followed by [0] returns, of a non-empty collection, an
\* element whose avg_log_prob is maximal, and of the elements with that
\* maximal key the one that comes first in the collection.
C6_BestIsFirstMax ==
    pc = "done" =>
        \E i \in 1..Len(results) :
            /\ best_hyp = results[i]
            /\ \A j \in 1..Len(results) : ~avg_log_prob_gt(results[j], results[i])
            /\ \A j \in 1..(i - 1) : avg_log_prob_gt(results[i], results[j])

\* two different hypotheses share the maximal key and the first is returned
C6_Witness ==
    /\ pc = "done"
    /\ Len(results) >= 2
    /\ best_hyp = results[1]
    /\ \E j \in 2..Len(results) :
          /\ results[j].tokens # results[1].tokens
          /\ ~avg_log_prob_gt(results[1], results[j])
          /\ Len(results[j].tokens) # Len(results[1].tokens)

\* C7: every token id handed to the decoder lies in [0, vocab_size); an id
\* outside that range is replaced by the id of [UNK] in the decoder's input
\* only: the hypothesis, and every child made of it, keeps the original id,
\* and the run does not fail.
C7_DecoderInputInVocabulary ==
    pc = "walk" =>
        /\ Len(latest_tokens) = Len(hyps)
        /\ \A i \in 1..Len(hyps) :
              /\ InRange(latest_tokens[i])
              /\ InRange(latest_token(hyps[i])) =>
                    latest_tokens[i] = latest_token(hyps[i])
              /\ ~InRange(latest_token(hyps[i])) =>
                    latest_tokens[i] = UNKNOWN_TOKEN
        /\ \A k \in 1..Len(all_hyps) :
              LET parent == hyps[((k - 1) \div (2 * beam_size)) + 1]
              IN SubSeq(all_hyps[k].tokens, 1, Len(parent.tokens)) = parent.tokens

\* a live hypothesis ending with an in-article OOV id was fed back as [UNK]
C7_Witness ==
    /\ pc = "walk"
    /\ \E i \in 1..Len(hyps) :
          /\ latest_token(hyps[i]) = OovId
          /\ latest_tokens[i] = UNKNOWN_TOKEN
          /\ \E k \in 1..Len(all_hyps) :
                SubSeq(all_hyps[k].tokens, 1, Len(hyps[i].tokens)) = hyps[i].tokens

InvalidConfiguration ==
    \/ min_dec_steps > max_dec_steps
    \/ beam_size < 1
    \/ lambda_val < 0
    \/ lambda_val > LamDen

\* C8: with min_dec_steps > max_dec_steps, beam_size < 1 or lambda_val
\* outside [0, 1] the run fails before decoding starts: the encoder and the
\* decoder are never called, no hypothesis is made and none is returned.
C8_InvalidConfigurationFailsFast ==
    InvalidConfiguration =>
        /\ enc_states = "None"
        /\ latest_tokens = <<>>
        /\ hyps = <<>>
        /\ pc # "done"

\* C9: in the scenario the loop runs exactly 3 steps, no hypothesis ever
\* finishes, the live beam becomes the result set and the hypothesis
\* returned is [START, a, a, a].
C9_ScenarioReturnsAAA ==
    /\ ~Exited => results = <<>>
    /\ Exited =>
          /\ pc = "done"
          /\ steps = 3
          /\ results = hyps
          /\ \A i \in 1..Len(results) : IsLive(results[i])
          /\ best_hyp.tokens = <<START_DECODING, TokA, TokA, TokA>>

\* the scenario has ended, with a live beam that also holds a hypothesis
\* containing b
C9_Witness ==
    /\ pc = "done"
    /\ steps = 3
    /\ Len(hyps) = 2
    /\ \E i \in 1..Len(hyps) : latest_token(hyps[i]) = TokB

AllHypotheses ==
    {hyps[i] : i \in 1..Len(hyps)} \cup {results[i] : i \in 1..Len(results)}
        \cup {all_hyps[i] : i \in 1..Len(all_hyps)}

\* C10: in diversity mode with lambda_val = 1.0 the mmr of every hypothesis,
\* live or finished, is the importance vector at every point of the decode,
\* whatever the decoder and the similarity scorer return.
C10_MmrIsImportance ==
    (pg_mmr /\ lambda_val = LamDen /\ pc # "start") =>
        \A h \in AllHypotheses : h.mmr = importances

\* a live hypothesis has ended a sentence and been given a similarity that
\* is not zero, the importances not being zero either
C10_Witness ==
    /\ pg_mmr /\ lambda_val = LamDen
    /\ \E i \in 1..Len(hyps) :
          /\ latest_token(hyps[i]) = PERIOD
          /\ \E n \in 1..NumSents :
                hyps[i].similarity[n] > 0 /\ importances[n] > 0
    /\ \E i \in 1..Len(results) : results[i].mmr = importances

\* C11: in diversity mode with lambda_val = 0.0 every hypothesis, at every
\* point of the decode, has mmr[i] = max(0, -similarity[i]) at every source
\* sentence i; a hypothesis that has not completed a sentence, whose
\* similarity is the default 0, has an mmr that is zero everywhere.
C11_MmrIsNegatedSimilarity ==
    (pg_mmr /\ lambda_val = 0 /\ pc # "start") =>
        \A h \in AllHypotheses :
            \A n \in 1..NumSents : h.mmr[n] = Max(0 - h.similarity[n], 0)

NonZeroCount(v) == Cardinality({i \in 1..Len(v) : v[i] # 0})

PositiveCount(v) == Cardinality({i \in 1..Len(v) : v[i] > 0})

\* the part of C12 that does not depend on the values retained: the result
\* is as long as v and has at most k non-zero entries; with fewer than k
\* positive entries in v its non-zero positions are the positive positions of
\* v; otherwise they are k positions whose values in v are >= every
\* unselected value
MuteSelectsTopK ==
    /\ Len(muted) = Len(array)
    /\ NonZeroCount(muted) <= mute_k
    /\ PositiveCount(array) < mute_k =>
          \A i \in 1..Len(array) : (muted[i] # 0) <=> (array[i] > 0)
    /\ PositiveCount(array) >= mute_k =>
          /\ NonZeroCount(muted) = mute_k
          /\ \A i, j \in 1..Len(array) :
                (muted[i] # 0 /\ muted[j] = 0) => array[i] >= array[j]

\* C12 as stated: for a non-negative vector v and k >= 1 the result of
\* mute_all_except_top_k(v, k) is as long as v and has at most k non-zero
\* entries; with fewer than k positive entries in v the result holds exactly
\* the positive entries of v, unchanged in value and position, and zero
\* elsewhere; otherwise the non-zero positions are k positions whose values
\* in v are >= every unselected value.
C12_MuteKeepsValues ==
    pc = "returned" =>
        /\ MuteSelectsTopK
        /\ PositiveCount(array) < mute_k => muted = array

\* C12 as amended: as above, but a retained entry holds its value in v only
\* when retain_mmr_values is set, and holds 1 otherwise.
C12_MuteTopK ==
    pc = "returned" =>
        /\ MuteSelectsTopK
        /\ \A i \in 1..Len(array) :
              muted[i] # 0 =>
                 muted[i] = (IF retain_mmr_values THEN array[i] ELSE 1)

\* a vector with at least k positive entries, two equal ones on either side
\* of the cut, muted to a binary mask
C12_Witness ==
    /\ pc = "returned"
    /\ ~retain_mmr_values
    /\ PositiveCount(array) >= mute_k
    /\ \E i, j \in 1..Len(array) :
          /\ muted[i] = 1 /\ muted[j] = 0
          /\ array[i] = array[j] /\ array[i] > 1

\* the sum of the weights at the token positions of sentence i, each weight
\* being a whole number
SentenceSum(i) ==
    SumSeq([w \in 1..Len(enc_tokens[i]) |->
               word_mmr[TokensBefore(enc_tokens, i) + w][1]])

\* C13: the vector convert_to_word_level returns is as long as the source
\* has tokens, every token position of sentence i holds score[i], so the
\* weights within sentence i sum to count(tokens of sentence i) * score[i],
\* and every position belongs to a sentence: none keeps the default
\* 1/num_tokens.
C13_WordLevelExpansion ==
    pc = "returned" =>
        /\ Len(word_mmr) = TokensBefore(enc_tokens, Len(enc_tokens) + 1)
        /\ \A i \in 1..Len(enc_tokens) :
              /\ \A w \in 1..Len(enc_tokens[i]) :
                    word_mmr[TokensBefore(enc_tokens, i) + w] = <<mmr_for_sentences[i], 1>>
              /\ SentenceSum(i) = Len(enc_tokens[i]) * mmr_for_sentences[i]
        /\ \A p \in 1..Len(word_mmr) :
              \E i \in 1..Len(enc_tokens) :
                  /\ TokensBefore(enc_tokens, i) < p
                  /\ p <= TokensBefore(enc_tokens, i + 1)
                  /\ word_mmr[p] = <<mmr_for_sentences[i], 1>>

\* three sentences of different lengths and scores, none of the scores
\* being the default weight
C13_Witness ==
    /\ pc = "returned"
    /\ Len(enc_tokens) >= 3
    /\ Len(enc_tokens[1]) # Len(enc_tokens[2])
    /\ mmr_for_sentences[1] # mmr_for_sentences[2]
    /\ mmr_for_sentences[2] # mmr_for_sentences[3]
    /\ \A p \in 1..Len(word_mmr) : word_mmr[p] # <<1, enc_batch_len>>
    /\ word_mmr[Len(word_mmr)] = <<mmr_for_sentences[3], 1>>

C15_HypothesisImmutable ==
    [][/\ pc = "walk" => all_hyps' = all_hyps
       /\ pc = "loop" => hyps' = hyps]_vars

\* the parent of the k-th child of a fan-out
ParentOf(k) == hyps[((k - 1) \div (2 * beam_size)) + 1]

\* sequence c is sequence p with exactly one element appended
OneAppended(c, p) == Len(c) = Len(p) + 1 /\ SubSeq(c, 1, Len(p)) = p

Sequences(h) == <<h.tokens, h.log_probs, h.attn_dists, h.p_gens>>

\* C16: the fan-out leaves every parent as it was, and every child's
\* tokens, log_probs, attn_dists and p_gens are its parent's with exactly
\* one element appended; the walk and the update that follow change no
\* sequence of any child, and change nothing at all of a child that is not
\* itself updated, so that children of one parent stay independent.
C16_ExtendFrame ==
    [][/\ (pc = "loop" /\ pc' = "walk") =>
             /\ hyps' = hyps
             /\ Len(all_hyps') = num_orig_hyps * 2 * beam_size
             /\ \A k \in 1..Len(all_hyps') :
                   \A f \in 1..4 :
                      OneAppended(Sequences(all_hyps'[k])[f], Sequences(ParentOf(k))[f])
       /\ pc = "walk" =>
             /\ Len(all_hyps') = Len(all_hyps)
             /\ \A k \in 1..Len(all_hyps) :
                   /\ Sequences(all_hyps'[k]) = Sequences(all_hyps[k])
                   /\ latest_token(all_hyps[k]) # PERIOD => all_hyps'[k] = all_hyps[k]
             /\ \A i \in 1..Len(hyps') :
                   \E j \in 1..Len(hyps) :
                      \A f \in 1..4 :
                         OneAppended(Sequences(hyps'[i])[f], Sequences(hyps[j])[f])]_vars

\* two children of one parent, one given a similarity and an mmr of its
\* own by the update, the other left with what it was made with
C16_Witness ==
    /\ pc = "loop"
    /\ steps >= 2
    /\ beam_size = 2
    /\ \E k, j \in 1..Len(all_hyps) :
          /\ (k - 1) \div (2 * beam_size) = (j - 1) \div (2 * beam_size)
          /\ all_hyps[k].similarity # DefaultSimilarity
          /\ all_hyps[j].similarity = DefaultSimilarity
          /\ all_hyps[k].mmr # all_hyps[j].mmr
          /\ all_hyps[k].tokens # all_hyps[j].tokens

\* C17: in diversity mode, after the walk and the update of a step every
\* live hypothesis whose latest token is the sentence boundary has
\* mmr = max(0, lambda*importances - (1 - lambda)*similarity), and every
\* other child, live or not, still has the mmr its parent had at the
\* fan-out; a hypothesis added to the finished results has its parent's mmr,
\* the results already there are not touched, and the importance vector
\* never changes once computed.
C17_MmrUpdate ==
    [][/\ (pg_mmr /\ pc = "walk") =>
             /\ \A i \in 1..Len(hyps') :
                   /\ \E k \in 1..Len(all_hyps') : hyps'[i] = all_hyps'[k]
                   /\ latest_token(hyps'[i]) = PERIOD =>
                         \A n \in 1..NumSents :
                            LamDen * hyps'[i].mmr[n] =
                               Max(lambda_val * importances[n]
                                     - (LamDen - lambda_val) * hyps'[i].similarity[n], 0)
             /\ \A k \in 1..Len(all_hyps') :
                   latest_token(all_hyps'[k]) # PERIOD =>
                      all_hyps'[k].mmr = ParentOf(k).mmr
             /\ SubSeq(results', 1, Len(results)) = results
             /\ \A j \in (Len(results) + 1)..Len(results') :
                   \E k \in 1..Len(all_hyps) :
                      results'[j] = all_hyps[k] /\ results'[j].mmr = ParentOf(k).mmr
       /\ pc # "start" => importances' = importances]_vars

\* a live hypothesis that ends a sentence has an mmr of its own, while a
\* finished one holds the mmr of its parent, itself once recomputed
C17_Witness ==
    /\ pg_mmr
    /\ pc = "loop"
    /\ steps >= 2
    /\ \E i \in 1..Len(hyps) :
          /\ latest_token(hyps[i]) = PERIOD
          /\ hyps[i].mmr # importances
          /\ \E j \in 1..Len(results) :
                /\ results[j].mmr # importances
                /\ results[j].mmr # hyps[i].mmr
                /\ results[j].similarity = DefaultSimilarity

\* child j comes before child k in the ranking: its key is strictly greater,
\* or the keys are equal and it was fanned out earlier
RankedBefore(all, j, k) ==
    \/ avg_log_prob_gt(all[j], all[k])
    \/ j < k /\ ~avg_log_prob_gt(all[k], all[j])

RankOf(all, k) ==
    1 + Cardinality({j \in 1..Len(all) : j # k /\ RankedBefore(all, j, k)})

\* the children of the ranks r, r + 1, ..., ranks holding each child's rank
RECURSIVE RankedFrom(_, _, _)
RankedFrom(all, ranks, r) ==
    IF r > Len(all) THEN <<>>
    ELSE <<all[CHOOSE k \in 1..Len(all) : ranks[k] = r]>>
            \o RankedFrom(all, ranks, r + 1)

RECURSIVE RanksUpTo(_, _)
RanksUpTo(all, n) ==
    IF n = 0 THEN <<>> ELSE Append(RanksUpTo(all, n - 1), RankOf(all, n))

\* the children in the order of their ranks
Ranked(all) ==
    CHOOSE ranked \in {RankedFrom(all, ranks, 1) :
                          ranks \in {RanksUpTo(all, Len(all))}} : TRUE

LiveUpTo(ranked, r) == Len(SelectSeq(SubSeq(ranked, 1, r), IsLive))

FinishedUpTo(ranked, r) ==
    Len(results) + (IF steps >= min_dec_steps
                    THEN Len(SelectSeq(SubSeq(ranked, 1, r), IsStop)) ELSE 0)

BeamFullAt(ranked, r) ==
    LiveUpTo(ranked, r) = beam_size \/ FinishedUpTo(ranked, r) = beam_size

Fields(hs) == [i \in 1..Len(hs) |-> <<hs[i].tokens, hs[i].log_probs>>]

\* C18: the walk of a step visits the children in descending key, equal
\* keys in the order of the fan-out, and stops at the first rank at which
\* the live set or the finished results reach beam_size.  The children up to
\* that rank are made live (no STOP), finished (STOP, step >= min_dec_steps)
\* or dropped (STOP, too early), in that order; those below are all dropped;
\* so no dropped child without STOP has a key strictly greater than a child
\* kept in the live beam.
C18_WalkOrder ==
    [][pc = "walk" =>
        \A ranked \in {Ranked(all_hyps)} :
            /\ walk_end' \in (IF ranked = <<>> THEN 0 ELSE 1)..Len(ranked)
            /\ \A q \in 1..(walk_end' - 1) : ~BeamFullAt(ranked, q)
            /\ BeamFullAt(ranked, walk_end') \/ walk_end' = Len(ranked)
            /\ \A visited \in {SubSeq(ranked, 1, walk_end')} :
                  /\ Fields(hyps') = Fields(SelectSeq(visited, IsLive))
                  /\ Fields(results') = Fields(results) \o
                        (IF steps >= min_dec_steps
                         THEN Fields(SelectSeq(visited, IsStop)) ELSE <<>>)
            /\ \A r \in (walk_end' + 1)..Len(ranked) :
                  IsLive(ranked[r]) =>
                     \A i \in 1..Len(hyps') : ~avg_log_prob_gt(ranked[r], hyps'[i])]_vars

\* a walk that dropped a child ending with STOP too early, filled the live
\* beam with two children of equal key and left a live child unvisited
C18_Witness ==
    /\ pc = "loop"
    /\ steps >= 1 /\ steps <= min_dec_steps
    /\ beam_size = 2
    /\ Len(hyps) = 2
    /\ ~avg_log_prob_gt(hyps[1], hyps[2])
    /\ hyps[1].tokens # hyps[2].tokens
    /\ \E r \in 1..walk_end : IsStop(sort_hyps(all_hyps)[r])
    /\ \E r \in (walk_end + 1)..Len(all_hyps) : IsLive(sort_hyps(all_hyps)[r])

\* C19: once the loop is set up every live hypothesis has steps + 1 tokens;
\* the children of a fan-out all have steps + 2 tokens, so that comparing
\* two of them by avg_log_prob is comparing them by log_prob; and every
\* hypothesis the walk of step s adds to the results has s + 2 tokens.
C19_LengthsFollowSteps ==
    /\ [](pc # "start" => \A i \in 1..Len(hyps) : Len(hyps[i].tokens) = steps + 1)
    /\ [](pc = "walk" =>
            \A j \in 1..Len(all_hyps) :
                /\ Len(all_hyps[j].tokens) = steps + 2
                /\ \A k \in 1..Len(all_hyps) :
                      avg_log_prob_gt(all_hyps[j], all_hyps[k])
                          <=> (log_prob(all_hyps[j]) > log_prob(all_hyps[k])))
    /\ [][pc = "walk" =>
            \A j \in (Len(results) + 1)..Len(results') :
                Len(results'[j].tokens) = steps + 2]_vars

\* the children of a later step, of different log-probabilities, with a
\* hypothesis that finished at an earlier step and one that finished after
C19_Witness ==
    /\ pc = "loop"
    /\ steps >= 2
    /\ Len(hyps) >= 1
    /\ \E j, k \in 1..Len(all_hyps) :
          log_prob(all_hyps[j]) > log_prob(all_hyps[k])
    /\ \E i, j \in 1..Len(results) :
          Len(results[i].tokens) = 2 /\ Len(results[j].tokens) = 3

\* C20: with a decoder whose candidates for each parent are pairwise
\* distinct, the live beam holds exactly beam_size hypotheses whenever an
\* iteration of the loop starts, and a walk ends with fewer live hypotheses
\* only when it has brought the finished results from below beam_size up to
\* beam_size, after which the loop is left.
C20_BeamStaysFull ==
    /\ [](pc = "walk" => Len(hyps) = beam_size)
    /\ []((pc = "loop" /\ steps < max_dec_steps /\ Len(results) < beam_size)
             => Len(hyps) = beam_size)
    /\ [][(pc = "walk" /\ Len(hyps') < beam_size) =>
             /\ Len(results) < beam_size
             /\ Len(results') = beam_size
             /\ pc' = "loop"]_vars
    /\ [][(pc = "loop" /\ Len(results) = beam_size) => Exited']_vars

\* a walk that ended with the finished results full and the live beam not
C20_Witness ==
    /\ pc = "loop"
    /\ steps >= 2
    /\ beam_size = 2
    /\ Len(results) = beam_size
    /\ Len(hyps) < beam_size
    /\ \E i, j \in 1..Len(results) :
          Len(results[i].tokens) < Len(results[j].tokens)

====
